---- MODULE Spec2Model ----
(***************************************************************************)
(* merge_config_files: layered configuration loading.                      *)
(*                                                                         *)
(*   SpecMerge  merge_objects as a function of (target, source, flags)     *)
(*   Spec       parse_config_files: load / merge loop over a path list     *)
(*   SpecPaths  parse_config_paths: resolution of locations into paths     *)
(***************************************************************************)
EXTENDS Integers, Sequences, FiniteSets, TLC

(***************************************************************************)
(* serde_json::Value.  A value is a pair <<variant, payload>>; the payload *)
(* of an Array is a sequence of values, the payload of an Object is a      *)
(* Map<String, Value>: a function from the keys it holds to values.        *)
(***************************************************************************)
Null == <<"Null", 0>>
Bool(b) == <<"Bool", b>>
Number(n) == <<"Number", n>>
String(s) == <<"String", s>>
Array(elems) == <<"Array", elems>>
Object(map) == <<"Object", map>>

IsObject(v) == v[1] = "Object"
IsArray(v) == v[1] = "Array"
IsScalar(v) == v[1] \in {"Null", "Bool", "Number", "String"}

\* Map::new()
EmptyMap == [k \in {} |-> Null]

\* Map::insert(key, value): adds the entry or replaces the one the key has
Insert(map, key, value) ==
  [k \in (DOMAIN map) \cup {key} |-> IF k = key THEN value ELSE map[k]]

\* Map::remove(key): the map without the entry
Remove(map, key) == [k \in (DOMAIN map) \ {key} |-> map[k]]

\* Keys in the order a Map yields them: ascending (Map is a BTreeMap).
KeyOrder == <<"a", "b", "x", "y">>

IterKeys(map) == SelectSeq(KeyOrder, LAMBDA k : k \in DOMAIN map)

(***************************************************************************)
(* Result<Map<String, Value>> of merge_objects.                            *)
(***************************************************************************)
NoError == <<"none">>
ObjectFieldTypeMismatch(key, value) == <<"ObjectFieldTypeMismatch", key, value>>
ArrayFieldTypeMismatch(key, value) == <<"ArrayFieldTypeMismatch", key, value>>

Ok(map) == [ok |-> TRUE, map |-> map, err |-> NoError]
Err(e) == [ok |-> FALSE, map |-> EmptyMap, err |-> e]

(***************************************************************************)
(* merge_objects.  MergeLoop is the `for (key, value) in source` loop with *)
(* `keys` the entries of source not yet visited; an Err returns at once.   *)
(***************************************************************************)
RECURSIVE MergeLoop(_, _, _, _, _)

\* mutant: the recursion is given the two flags in the wrong order
MergeObjectArm_SwappedFlags(target, source, keys, merge_nested, extend_array) ==
  LET key == Head(keys)
      value == source[key]
      target_obj == target[key][2]
      rest == Remove(target, key)
  IN  IF ~merge_nested
        THEN MergeLoop(Insert(rest, key, value), source, Tail(keys),
                       merge_nested, extend_array)
        ELSE IF IsObject(value)
          THEN LET inner == MergeLoop(target_obj, value[2], IterKeys(value[2]),
                                      extend_array, merge_nested)
               IN  IF inner.ok
                     THEN MergeLoop(Insert(rest, key, Object(inner.map)), source,
                                    Tail(keys), merge_nested, extend_array)
                     ELSE inner
          ELSE Err(ObjectFieldTypeMismatch(key, value))

\* mutant: an object is always replaced by the source value
MergeObjectArm_Replaces(target, source, keys, merge_nested, extend_array) ==
  MergeLoop(Insert(Remove(target, Head(keys)), Head(keys), source[Head(keys)]),
            source, Tail(keys), merge_nested, extend_array)

\* the Value::Object(target_obj) arm
MergeObjectArm(target, source, keys, merge_nested, extend_array) ==
  LET key == Head(keys)
      value == source[key]
      target_obj == target[key][2]
      rest == Remove(target, key)
  IN  IF ~merge_nested
        THEN MergeLoop(Insert(rest, key, value), source, Tail(keys),
                       merge_nested, extend_array)
        ELSE IF IsObject(value)
          THEN LET inner == MergeLoop(target_obj, value[2], IterKeys(value[2]),
                                      merge_nested, extend_array)
               IN  IF inner.ok
                     THEN MergeLoop(Insert(rest, key, Object(inner.map)), source,
                                    Tail(keys), merge_nested, extend_array)
                     ELSE inner
          ELSE Err(ObjectFieldTypeMismatch(key, value))

\* mutant: a source value that is no array replaces the array, without error
MergeArrayArm_Lenient(target, source, keys, merge_nested, extend_array) ==
  LET key == Head(keys)
      value == source[key]
      target_arr == target[key][2]
      rest == Remove(target, key)
  IN  IF ~extend_array \/ ~IsArray(value)
        THEN MergeLoop(Insert(rest, key, value), source, Tail(keys),
                       merge_nested, extend_array)
        ELSE MergeLoop(Insert(rest, key, Array(target_arr \o value[2])), source,
                       Tail(keys), merge_nested, extend_array)

\* mutant: the source's elements are put before the target's
MergeArrayArm_Prepends(target, source, keys, merge_nested, extend_array) ==
  LET key == Head(keys)
      value == source[key]
      target_arr == target[key][2]
      rest == Remove(target, key)
  IN  IF ~extend_array
        THEN MergeLoop(Insert(rest, key, value), source, Tail(keys),
                       merge_nested, extend_array)
        ELSE IF IsArray(value)
          THEN MergeLoop(Insert(rest, key, Array(value[2] \o target_arr)), source,
                         Tail(keys), merge_nested, extend_array)
          ELSE Err(ArrayFieldTypeMismatch(key, value))

\* the Value::Array(target_arr) arm
MergeArrayArm(target, source, keys, merge_nested, extend_array) ==
  LET key == Head(keys)
      value == source[key]
      target_arr == target[key][2]
      rest == Remove(target, key)
  IN  IF ~extend_array
        THEN MergeLoop(Insert(rest, key, value), source, Tail(keys),
                       merge_nested, extend_array)
        ELSE IF IsArray(value)
          THEN MergeLoop(Insert(rest, key, Array(target_arr \o value[2])), source,
                         Tail(keys), merge_nested, extend_array)
          ELSE Err(ArrayFieldTypeMismatch(key, value))

\* mutant: a key the target lacks is skipped instead of inserted
MergeLoop_SkipsNewKeys(target, source, keys, merge_nested, extend_array) ==
  IF keys = <<>> THEN Ok(target)
  ELSE LET key == Head(keys)
           value == source[key]
       IN  IF key \notin DOMAIN target
             THEN MergeLoop(target, source, Tail(keys), merge_nested, extend_array)
             ELSE CASE IsObject(target[key]) ->
                         MergeObjectArm(target, source, keys, merge_nested, extend_array)
                    [] IsArray(target[key]) ->
                         MergeArrayArm(target, source, keys, merge_nested, extend_array)
                    [] OTHER ->
                         MergeLoop(Insert(Remove(target, key), key, value), source,
                                   Tail(keys), merge_nested, extend_array)

MergeLoop(target, source, keys, merge_nested, extend_array) ==
  IF keys = <<>> THEN Ok(target)
  ELSE LET key == Head(keys)
           value == source[key]
       IN  IF key \notin DOMAIN target
             THEN MergeLoop(Insert(target, key, value), source, Tail(keys),
                            merge_nested, extend_array)
             ELSE CASE IsObject(target[key]) ->
                         MergeObjectArm(target, source, keys, merge_nested, extend_array)
                    [] IsArray(target[key]) ->
                         MergeArrayArm(target, source, keys, merge_nested, extend_array)
                    [] OTHER ->
                         MergeLoop(Insert(Remove(target, key), key, value), source,
                                   Tail(keys), merge_nested, extend_array)

merge_objects(target, source, merge_nested, extend_array) ==
  MergeLoop(target, source, IterKeys(source), merge_nested, extend_array)

(***************************************************************************)
(* Bounded documents.                                                      *)
(***************************************************************************)
MaxArrayLen == 1
MaxPairWeight == 4
MaxSelfWeight == 4

Maps(K, V) == UNION {[D -> V] : D \in SUBSET K}
SeqsUpTo(S, n) == UNION {[1..m -> S] : m \in 0..n}

Scalars == {Null, Bool(TRUE), Number(1), String("s")}
Elements == {Number(1), Number(2), Object([x |-> Array(<<Number(1)>>)])}
Arrays == {Array(s) : s \in SeqsUpTo(Elements, MaxArrayLen)}
Leaves == Scalars \cup Arrays

InnerKeys == {"x", "y"}
TopKeys == {"a", "b"}

RECURSIVE SumOver(_, _)
SumOver(f, S) ==
  IF S = {} THEN 0
  ELSE LET k == CHOOSE e \in S : TRUE IN f[k] + SumOver(f, S \ {k})

\* number of values a value holds, itself included
RECURSIVE Weight(_)
Weight(v) ==
  CASE IsObject(v) -> 1 + SumOver([k \in DOMAIN v[2] |-> Weight(v[2][k])], DOMAIN v[2])
    [] IsArray(v) -> 1 + SumOver([i \in DOMAIN v[2] |-> Weight(v[2][i])], DOMAIN v[2])
    [] OTHER -> 1

\* number of values below the root of a document
DocWeight(map) == Weight(Object(map)) - 1

MaxDocWeight == IF MaxPairWeight > MaxSelfWeight THEN MaxPairWeight ELSE MaxSelfWeight

\* the maps over subsets of K of weight w, values[u] being the values of weight u
RECURSIVE MapsOfWeight(_, _, _)
MapsOfWeight(K, values, w) ==
  IF K = {} THEN (IF w = 0 THEN {EmptyMap} ELSE {})
  ELSE LET k == CHOOSE e \in K : TRUE
       IN  MapsOfWeight(K \ {k}, values, w)
           \cup UNION {{Insert(m, k, v) : m \in MapsOfWeight(K \ {k}, values, w - u),
                                          v \in values[u]} : u \in 1..w}

ObjectsOfWeight(K, values, w) == {Object(m) : m \in MapsOfWeight(K, values, w - 1)}

\* values by weight, for each nesting depth of objects: no object, objects over
\* {"x"} holding leaves, objects over InnerKeys holding those
LeafValues == [w \in 1..MaxDocWeight |-> {v \in Leaves : Weight(v) = w}]
DeepValues ==
  [w \in 1..MaxDocWeight |-> LeafValues[w] \cup ObjectsOfWeight({"x"}, LeafValues, w)]
InnerValues ==
  [w \in 1..MaxDocWeight |-> LeafValues[w] \cup ObjectsOfWeight(InnerKeys, DeepValues, w)]

\* the documents of weight w: maps over TopKeys
Docs == [w \in 0..MaxDocWeight |-> MapsOfWeight(TopKeys, InnerValues, w)]

\* the pairs (target, source) merge_objects is applied to
MergePairs ==
  UNION {Docs[ij[1]] \X Docs[ij[2]] :
           ij \in {p \in (0..MaxPairWeight) \X (0..MaxPairWeight) :
                     p[1] + p[2] <= MaxPairWeight}}
  \cup UNION {{<<m, m>> : m \in Docs[w]} : w \in 0..MaxSelfWeight}

VARIABLES
  pc,            \* position of the operation under way
  target,        \* merge_objects' target / parse_config_files' accumulator
  source,        \* merge_objects' source
  merge_nested,  \* flag of the call
  extend_array,  \* flag of the call
  merged,        \* what merge_objects returned
  paths,         \* parse_config_files' path list, each path with the file behind it
  idx,           \* position of the `for path in paths` loop
  config,        \* the document parse_config_file returned for paths[idx]
  result,        \* what parse_config_files returned
  trace,         \* the file loads and merges done so far, in order
  locations,     \* parse_config_paths' input locations, each with what is there
  match_wildcards, \* parse_config_paths' filter: NoFilter or a sequence of patterns
  loc,           \* position of the map over the locations
  collected,     \* the path lists of the locations resolved so far
  resolved       \* outcome of the resolution: the path list or the error

vars == <<pc, target, source, merge_nested, extend_array, merged,
          paths, idx, config, result, trace,
          locations, match_wildcards, loc, collected, resolved>>

pathsVars == <<locations, match_wildcards, loc, collected, resolved>>

filesVars == <<paths, idx, config, result, trace>>
mergeVars == <<source, merged>>

\* before the call returns
NotRun == [ok |-> FALSE, map |-> EmptyMap, err |-> <<"not run">>]
NotResolved == [ok |-> FALSE, paths |-> <<>>, err |-> <<"not run">>]

\* Option<&[&str]>
NoFilter == [some |-> FALSE, kws |-> <<>>]
Some(kws) == [some |-> TRUE, kws |-> kws]

(***************************************************************************)
(* SpecMerge: one call of merge_objects on bounded arguments.              *)
(***************************************************************************)
InitMerge ==
  /\ pc = "call"
  /\ \E p \in MergePairs : target = p[1] /\ source = p[2]
  /\ merge_nested \in BOOLEAN
  /\ extend_array \in BOOLEAN
  /\ merged = NotRun
  /\ paths = <<>> /\ idx = 0 /\ config = EmptyMap /\ result = NotRun /\ trace = <<>>
  /\ locations = <<>> /\ match_wildcards = NoFilter /\ loc = 0
  /\ collected = <<>> /\ resolved = NotResolved

CallMergeObjects ==
  /\ pc = "call"
  /\ merged' = merge_objects(target, source, merge_nested, extend_array)
  /\ pc' = "returned"
  /\ UNCHANGED <<target, source, merge_nested, extend_array, filesVars, pathsVars>>

NextMerge == CallMergeObjects

SpecMerge == InitMerge /\ [][NextMerge]_vars

(***************************************************************************)
(* Files.  A path of the list is modelled with the file behind it: its     *)
(* extension (Path::extension), whether File::open succeeds, whether its   *)
(* bytes can be read, and what they parse to in the format of the          *)
(* extension (a document, or Invalid when the parser rejects them).        *)
(***************************************************************************)
MaxFiles == 3

NoExtension == "(none)"
Invalid == <<"Invalid", 0>>

RECURSIVE HasNull(_)
HasNull(v) ==
  CASE IsObject(v) -> \E k \in DOMAIN v[2] : HasNull(v[2][k])
    [] IsArray(v) -> \E i \in DOMAIN v[2] : HasNull(v[2][i])
    [] OTHER -> v = Null

\* the documents files hold
FileDocs == {m \in Docs[0] \cup Docs[1] : DOMAIN m \subseteq {"a"}}

\* what a file's bytes can parse to: TOML has no null
Parsed(ext) ==
  {Invalid} \cup {Object(d) : d \in IF ext = "toml" THEN {m \in FileDocs : ~HasNull(Object(m))}
                                    ELSE FileDocs}

Files ==
  {[ext |-> e, opens |-> FALSE, reads |-> FALSE, parsed |-> Invalid] :
     e \in {"toml", "json", "yaml", NoExtension}}
  \cup {[ext |-> e, opens |-> TRUE, reads |-> TRUE, parsed |-> Invalid] :
          e \in {"yaml", NoExtension}}
  \cup {[ext |-> "toml", opens |-> TRUE, reads |-> FALSE, parsed |-> Invalid]}
  \cup UNION {{[ext |-> e, opens |-> TRUE, reads |-> TRUE, parsed |-> c] :
                 c \in Parsed(e)} : e \in {"toml", "json"}}

(***************************************************************************)
(* parse_config_file: the Result of loading one path.  Errors carry the    *)
(* path, here the position `at` of the path in the list.                   *)
(***************************************************************************)
\* mutant: the extension is inspected before the file is opened
parse_config_file_ExtensionFirst(file, at) ==
  IF file.ext \notin {"toml", "json"} THEN Err(<<"UnsupportedFileType", at>>)
  ELSE IF ~file.opens THEN Err(<<"FileOpen", at>>)
  ELSE IF file.ext = "toml"
    THEN IF ~file.reads THEN Err(<<"ReadFileContents", at>>)
         ELSE IF file.parsed = Invalid THEN Err(<<"ParseToml", at>>)
         ELSE Ok(file.parsed[2])
  ELSE IF ~file.reads \/ file.parsed = Invalid THEN Err(<<"ParseJson", at>>)
  ELSE Ok(file.parsed[2])

parse_config_file(file, at) ==
  IF ~file.opens THEN Err(<<"FileOpen", at>>)
  ELSE CASE file.ext = "toml" ->
              IF ~file.reads THEN Err(<<"ReadFileContents", at>>)
              ELSE IF file.parsed = Invalid THEN Err(<<"ParseToml", at>>)
              ELSE Ok(file.parsed[2])
         [] file.ext = "json" ->
              IF ~file.reads \/ file.parsed = Invalid THEN Err(<<"ParseJson", at>>)
              ELSE Ok(file.parsed[2])
         [] OTHER -> Err(<<"UnsupportedFileType", at>>)

(***************************************************************************)
(* Spec: parse_config_files.  Each iteration of the loop loads paths[idx]  *)
(* (LoadConfig) and merges the document into target (MergeConfig); after   *)
(* the last one the merged document is decoded into the caller's type      *)
(* (Decode), which the caller's type accepts or not; serializing a Map of  *)
(* Values to a string does not fail.                                       *)
(***************************************************************************)
Init ==
  /\ pc = "loop"
  /\ \E n \in 0..MaxFiles : paths \in [1..n -> Files]
  /\ merge_nested \in BOOLEAN
  /\ extend_array \in BOOLEAN
  /\ target = EmptyMap
  /\ idx = 1
  /\ config = EmptyMap
  /\ result = NotRun
  /\ trace = <<>>
  /\ source = EmptyMap /\ merged = NotRun
  /\ locations = <<>> /\ match_wildcards = NoFilter /\ loc = 0
  /\ collected = <<>> /\ resolved = NotResolved

\* mutant: a file that fails to load is skipped
LoadConfig_SkipsBadFile ==
  /\ pc = "loop"
  /\ idx <= Len(paths)
  /\ LET loaded == parse_config_file(paths[idx], idx)
     IN  /\ trace' = Append(trace, <<"load", idx>>)
         /\ IF loaded.ok
              THEN /\ config' = loaded.map
                   /\ pc' = "merge"
                   /\ UNCHANGED <<result, idx>>
              ELSE /\ idx' = idx + 1
                   /\ UNCHANGED <<result, pc, config>>
  /\ UNCHANGED <<paths, target, merge_nested, extend_array, mergeVars, pathsVars>>

LoadConfig ==
  /\ pc = "loop"
  /\ idx <= Len(paths)
  /\ LET loaded == parse_config_file(paths[idx], idx)
     IN  /\ trace' = Append(trace, <<"load", idx>>)
         /\ IF loaded.ok
              THEN /\ config' = loaded.map
                   /\ pc' = "merge"
                   /\ UNCHANGED result
              ELSE /\ result' = loaded
                   /\ pc' = "done"
                   /\ UNCHANGED config
  /\ UNCHANGED <<paths, idx, target, merge_nested, extend_array, mergeVars, pathsVars>>

\* mutant: the accumulator is merged into the loaded document
MergeConfig_Swapped ==
  /\ pc = "merge"
  /\ LET next == merge_objects(config, target, merge_nested, extend_array)
     IN  /\ trace' = Append(trace, <<"merge", idx>>)
         /\ IF next.ok
              THEN /\ target' = next.map
                   /\ idx' = idx + 1
                   /\ pc' = "loop"
                   /\ UNCHANGED result
              ELSE /\ result' = next
                   /\ pc' = "done"
                   /\ UNCHANGED <<target, idx>>
  /\ UNCHANGED <<paths, config, merge_nested, extend_array, mergeVars, pathsVars>>

MergeConfig ==
  /\ pc = "merge"
  /\ LET next == merge_objects(target, config, merge_nested, extend_array)
     IN  /\ trace' = Append(trace, <<"merge", idx>>)
         /\ IF next.ok
              THEN /\ target' = next.map
                   /\ idx' = idx + 1
                   /\ pc' = "loop"
                   /\ UNCHANGED result
              ELSE /\ result' = next
                   /\ pc' = "done"
                   /\ UNCHANGED <<target, idx>>
  /\ UNCHANGED <<paths, config, merge_nested, extend_array, mergeVars, pathsVars>>

Decode ==
  /\ pc = "loop"
  /\ idx > Len(paths)
  /\ \E accepted \in BOOLEAN :
       result' = IF accepted THEN Ok(target) ELSE Err(<<"ParseFinalJson">>)
  /\ trace' = Append(trace, <<"decode", idx>>)
  /\ pc' = "done"
  /\ UNCHANGED <<paths, idx, config, target, merge_nested, extend_array, mergeVars, pathsVars>>

Next == LoadConfig \/ MergeConfig \/ Decode

Spec == Init /\ [][Next]_vars

(***************************************************************************)
(* Names and paths.  A name is the sequence of its characters, a path the  *)
(* sequence of its components.                                             *)
(***************************************************************************)
a_toml == <<"a", ".", "t", "o", "m", "l">>
b_toml == <<"b", ".", "t", "o", "m", "l">>
dev_json == <<"d", "e", "v", ".", "j", "s", "o", "n">>
prod_db_json == <<"p", "r", "o", "d", "-", "d", "b", ".", "j", "s", "o", "n">>
prod == <<"p", "r", "o", "d">>
prod_d == <<"p", "r", "o", "d", ".", "d">>
z_json == <<"z", ".", "j", "s", "o", "n">>
gone == <<"g", "o", "n", "e">>
conf == <<"c", "o", "n", "f">>
etc == <<"e", "t", "c">>
\* a name OsStr::to_str cannot decode
NotUtf8 == <<"(not utf-8)">>

\* the byte of a character
Byte ==
  [c \in {"*", "-", ".", "?", "\\", "a", "b", "c", "d", "e", "f", "g", "j", "l", "m",
          "n", "o", "p", "r", "s", "t", "v", "z"} |->
     CASE c = "*" -> 42 [] c = "-" -> 45 [] c = "." -> 46 [] c = "?" -> 63
       [] c = "\\" -> 92 [] c = "a" -> 97 [] c = "b" -> 98 [] c = "c" -> 99
       [] c = "d" -> 100 [] c = "e" -> 101 [] c = "f" -> 102 [] c = "g" -> 103
       [] c = "j" -> 106 [] c = "l" -> 108 [] c = "m" -> 109 [] c = "n" -> 110
       [] c = "o" -> 111 [] c = "p" -> 112 [] c = "r" -> 114 [] c = "s" -> 115
       [] c = "t" -> 116 [] c = "v" -> 118 [] c = "z" -> 122]

\* Ord of a path component: its bytes, lexicographically
RECURSIVE NameLess(_, _)
NameLess(m, n) ==
  IF n = <<>> THEN FALSE
  ELSE IF m = <<>> THEN TRUE
  ELSE IF Head(m) # Head(n) THEN Byte[Head(m)] < Byte[Head(n)]
  ELSE NameLess(Tail(m), Tail(n))

\* Ord of PathBuf: its components, lexicographically
RECURSIVE PathLess(_, _)
PathLess(p, q) ==
  IF q = <<>> THEN FALSE
  ELSE IF p = <<>> THEN TRUE
  ELSE IF Head(p) # Head(q) THEN NameLess(Head(p), Head(q))
  ELSE PathLess(Tail(p), Tail(q))

\* Vec::sort of a list of paths
\* mutant: the list is left in the order read_dir gave
SortPaths_Unsorted(files) == files

SortPaths(files) == SortSeq(files, PathLess)

(***************************************************************************)
(* Wildcards (crate wildcard): `*` matches any run of bytes, `?` one byte, *)
(* `\` escapes a metasymbol; a pattern matches the whole name.             *)
(***************************************************************************)
Metasymbols == {"*", "?", "\\"}

\* Wildcard::new(kw) is Ok: every `\` escapes a metasymbol
RECURSIVE ValidWildcard(_)
ValidWildcard(kw) ==
  IF kw = <<>> THEN TRUE
  ELSE IF Head(kw) = "\\"
    THEN Len(kw) >= 2 /\ kw[2] \in Metasymbols /\ ValidWildcard(Tail(Tail(kw)))
  ELSE ValidWildcard(Tail(kw))

\* Wildcard::is_match(name)
RECURSIVE IsMatch(_, _)
IsMatch(wc, name) ==
  IF wc = <<>> THEN name = <<>>
  ELSE CASE Head(wc) = "*" ->
              \/ IsMatch(Tail(wc), name)
              \/ name # <<>> /\ IsMatch(wc, Tail(name))
         [] Head(wc) = "?" -> name # <<>> /\ IsMatch(Tail(wc), Tail(name))
         [] Head(wc) = "\\" ->
              /\ name # <<>> /\ Len(wc) >= 2 /\ wc[2] = Head(name)
              /\ IsMatch(Tail(Tail(wc)), Tail(name))
         [] OTHER ->
              name # <<>> /\ Head(wc) = Head(name) /\ IsMatch(Tail(wc), Tail(name))


\* the wildcards parse_config_paths builds from match_wildcards: none for
\* None, and the invalid patterns dropped
Wildcards(filter) ==
  LET kws == IF filter.some THEN filter.kws ELSE <<>>
  IN  SelectSeq(kws, ValidWildcard)

\* kw occurs in name
Contains(name, kw) ==
  \E i \in 0..(Len(name) - Len(kw)) : SubSeq(name, i + 1, i + Len(kw)) = kw

\* mutant: a name is selected when it contains some filter entry
Selected_Contains(name, wildcards) ==
  \E i \in DOMAIN wildcards : Contains(name, wildcards[i])

\* the filter of file_names_in_dir: some wildcard matches the name
Selected(name, wildcards) ==
  \E i \in DOMAIN wildcards : IsMatch(wildcards[i], name)

(***************************************************************************)
(* Locations.  Behind a location is nothing (metadata fails), a file, or a *)
(* directory: listable or not, with entries <<name, kind>>, the kind being *)
(* "file", "dir", or "error" for an entry whose metadata cannot be read.   *)
(***************************************************************************)
MaxLocations == 2
MaxEntries == 2

DirEntries ==
  {<<n, "file">> : n \in {a_toml, b_toml, dev_json, prod_db_json, prod, NotUtf8}}
  \cup {<<prod_d, "dir">>, <<gone, "error">>}

Directories ==
  {[path |-> <<d>>, kind |-> "dir", listable |-> FALSE, entries |-> {}] : d \in {conf, etc}}
  \cup {[path |-> <<d>>, kind |-> "dir", listable |-> TRUE, entries |-> E] :
          d \in {conf, etc},
          E \in {S \in SUBSET DirEntries : Cardinality(S) <= MaxEntries}}

Locations ==
  Directories
  \cup {[path |-> <<n>>, kind |-> "file", listable |-> FALSE, entries |-> {}] :
          n \in {z_json, a_toml}}
  \cup {[path |-> <<gone>>, kind |-> "missing", listable |-> FALSE, entries |-> {}]}

prod_star == <<"p", "r", "o", "d", "*">>

Filters ==
  {NoFilter, Some(<<>>), Some(<<prod>>), Some(<<prod_star>>), Some(<<<<"*">>>>),
   Some(<<<<"?", ".", "t", "o", "m", "l">>, prod>>),
   Some(<<<<"\\">>, <<"*", ".", "j", "s", "o", "n">>>>)}

\* the orders in which read_dir can yield the entries of a directory
Listings(entries) ==
  {l \in [1..Cardinality(entries) -> entries] : \A e \in entries : \E i \in DOMAIN l : l[i] = e}

POk(list) == [ok |-> TRUE, paths |-> list, err |-> NoError]
PErr(e) == [ok |-> FALSE, paths |-> <<>>, err |-> e]

(***************************************************************************)
(* file_names_in_dir on a directory whose read_dir yields `listing`.       *)
(***************************************************************************)
Readable(entry) == entry[2] # "error"
IsFile(entry) == entry[2] = "file"
Decodable(entry) == entry[1] # NotUtf8

file_names_in_dir(dir, listing, wildcards) ==
  IF ~dir.listable THEN PErr(<<"ReadDir", dir.path>>)
  ELSE IF \E i \in DOMAIN listing : ~Readable(listing[i])
    THEN PErr(<<"ReadPathMetaData", dir.path>>)
  ELSE LET files == SelectSeq(listing, IsFile)
           named == SelectSeq(files, Decodable)
           kept == SelectSeq(named, LAMBDA e : Selected(e[1], wildcards))
       IN  IF Len(named) < Len(files) THEN PErr(<<"GetFileName", dir.path>>)
           ELSE POk(SortPaths([i \in DOMAIN kept |-> Append(dir.path, kept[i][1])]))

RECURSIVE Flatten(_)
Flatten(lists) == IF lists = <<>> THEN <<>> ELSE Head(lists) \o Flatten(Tail(lists))

(***************************************************************************)
(* SpecPaths: parse_config_paths.  ResolveLocation is one step of the map  *)
(* over the locations, which stops at the first error; with every location *)
(* resolved the lists are flattened and parse_config_files is called on    *)
(* the result (Spec takes over from there, for any path list).             *)
(***************************************************************************)
InitPaths ==
  /\ pc = "resolve"
  /\ \E n \in 0..MaxLocations : locations \in [1..n -> Locations]
  /\ \A i, j \in DOMAIN locations :
       locations[i].path = locations[j].path => locations[i] = locations[j]
  /\ SumOver([i \in DOMAIN locations |-> Cardinality(locations[i].entries)],
             DOMAIN locations) <= MaxEntries
  /\ match_wildcards \in Filters
  /\ loc = 1
  /\ collected = <<>>
  /\ resolved = NotResolved
  /\ merge_nested \in BOOLEAN
  /\ extend_array \in BOOLEAN
  /\ target = EmptyMap /\ source = EmptyMap /\ merged = NotRun
  /\ paths = <<>> /\ idx = 0 /\ config = EmptyMap /\ result = NotRun /\ trace = <<>>

ResolveLocation ==
  /\ pc = "resolve"
  /\ loc <= Len(locations)
  /\ LET here == locations[loc]
     IN  \E listing \in Listings(here.entries) :
           LET found ==
                 CASE here.kind = "missing" -> PErr(<<"ReadPathMetaData", here.path>>)
                   [] here.kind = "dir" ->
                        file_names_in_dir(here, listing, Wildcards(match_wildcards))
                   [] OTHER -> POk(<<here.path>>)
           IN  IF found.ok
                 THEN /\ collected' = Append(collected, found.paths)
                      /\ loc' = loc + 1
                      /\ UNCHANGED <<pc, resolved>>
                 ELSE /\ resolved' = found
                      /\ pc' = "failed"
                      /\ UNCHANGED <<collected, loc>>
  /\ UNCHANGED <<locations, match_wildcards, target, merge_nested, extend_array,
                 mergeVars, filesVars>>

CallParseConfigFiles ==
  /\ pc = "resolve"
  /\ loc > Len(locations)
  /\ resolved' = POk(Flatten(collected))
  /\ pc' = "parse_config_files"
  /\ UNCHANGED <<locations, match_wildcards, loc, collected, target, merge_nested,
                 extend_array, mergeVars, filesVars>>

NextPaths == ResolveLocation \/ CallParseConfigFiles

SpecPaths == InitPaths /\ [][NextPaths]_vars

(***************************************************************************)
(* Properties of merge_objects (SpecMerge).                                *)
(***************************************************************************)
Returned == pc = "returned"
Shared(t, s) == (DOMAIN t) \cap (DOMAIN s)

\* The type conflicts of a merge: <<error, key>> for every key present on
\* both sides, at the top level or inside objects entered under merge_nested,
\* whose target is an Object (resp. Array) demanded to be merged (resp.
\* extended) by the flag and whose source is not one.
RECURSIVE Conflicts(_, _, _, _)
Conflicts(t, s, mn, ea) ==
  UNION {
    IF IsObject(t[k]) /\ mn
      THEN IF IsObject(s[k]) THEN Conflicts(t[k][2], s[k][2], mn, ea)
           ELSE {<<"ObjectFieldTypeMismatch", k>>}
    ELSE IF IsArray(t[k]) /\ ea /\ ~IsArray(s[k])
      THEN {<<"ArrayFieldTypeMismatch", k>>}
    ELSE {} : k \in Shared(t, s)}

\* C1: merge_objects fails if and only if the merge has a type conflict, and
\* the error it returns is the mismatch of one of the conflicts, carrying the
\* conflict's key and the source value found there; keys whose target is a
\* scalar, or whose flag is off, never make it fail.
C1_FailsIffConflict ==
  Returned =>
    LET conflicts == Conflicts(target, source, merge_nested, extend_array)
    IN  /\ merged.ok <=> conflicts = {}
        /\ ~merged.ok =>
             /\ Len(merged.err) = 3
             /\ <<merged.err[1], merged.err[2]>> \in conflicts
             /\ merged.err[1] = "ObjectFieldTypeMismatch" => ~IsObject(merged.err[3])
             /\ merged.err[1] = "ArrayFieldTypeMismatch" => ~IsArray(merged.err[3])

\* C1 witness: both kinds of conflict at once, and a conflict inside a nested object
C1_Witness ==
  /\ Returned
  /\ ~merged.ok
  /\ \/ Cardinality(Conflicts(target, source, merge_nested, extend_array)) = 2
     \/ \E k \in Shared(target, source) :
          /\ IsObject(target[k]) /\ IsObject(source[k])
          /\ Conflicts(target[k][2], source[k][2], merge_nested, extend_array) # {}

\* The merge of two maps stated per key (meaningful when there is no conflict):
\* the union of the keys, one-sided keys keeping their value, and for shared
\* keys recursion on two objects under merge_nested, concatenation of two
\* arrays under extend_array, and the source value otherwise.
RECURSIVE Expected(_, _, _, _)
Expected(t, s, mn, ea) ==
  [k \in (DOMAIN t) \cup (DOMAIN s) |->
     IF k \notin DOMAIN s THEN t[k]
     ELSE IF k \notin DOMAIN t THEN s[k]
     ELSE IF IsObject(t[k]) /\ IsObject(s[k]) /\ mn
       THEN Object(Expected(t[k][2], s[k][2], mn, ea))
     ELSE IF IsArray(t[k]) /\ IsArray(s[k]) /\ ea
       THEN Array(t[k][2] \o s[k][2])
     ELSE s[k]]

\* C2: a key holding an Object on both sides holds, after a successful merge,
\* the recursive merge of the two objects under the same flags when
\* merge_nested is set, and the source value (whatever its variant, for any
\* Object target) when it is not.
C2_ObjectRecursionToggle ==
  (Returned /\ merged.ok) =>
    \A k \in Shared(target, source) :
      IsObject(target[k]) =>
        /\ (merge_nested /\ IsObject(source[k])) =>
             /\ k \in DOMAIN merged.map
             /\ merged.map[k] =
                  Object(Expected(target[k][2], source[k][2], merge_nested, extend_array))
        /\ ~merge_nested => (k \in DOMAIN merged.map /\ merged.map[k] = source[k])

\* C2 witness: two objects with different keys are merged under merge_nested
C2_Witness ==
  /\ Returned /\ merged.ok /\ merge_nested
  /\ \E k \in Shared(target, source) :
       /\ IsObject(target[k]) /\ IsObject(source[k])
       /\ DOMAIN target[k][2] # DOMAIN source[k][2]
       /\ DOMAIN target[k][2] # {} /\ DOMAIN source[k][2] # {}

\* C3: a key holding an Array in the target holds, after a successful merge,
\* the target's elements followed by the source's when extend_array is set
\* and the source holds an Array, and the source value when it is not set.
C3_ArrayExtendToggle ==
  (Returned /\ merged.ok) =>
    \A k \in Shared(target, source) :
      IsArray(target[k]) =>
        /\ k \in DOMAIN merged.map
        /\ (extend_array /\ IsArray(source[k])) =>
             /\ IsArray(merged.map[k])
             /\ merged.map[k][2] = target[k][2] \o source[k][2]
             /\ Len(merged.map[k][2]) = Len(target[k][2]) + Len(source[k][2])
        /\ ~extend_array => merged.map[k] = source[k]

\* C3 witness: two non-empty arrays with different elements are concatenated
C3_Witness ==
  /\ Returned /\ merged.ok /\ extend_array
  /\ \E k \in Shared(target, source) :
       /\ IsArray(target[k]) /\ IsArray(source[k])
       /\ target[k][2] # <<>> /\ source[k][2] # <<>>
       /\ target[k][2] # source[k][2]

\* a document with every array that is the value of an object field, at any
\* object-nesting depth, concatenated with itself
RECURSIVE Doubled(_)
Doubled(map) ==
  [k \in DOMAIN map |->
     IF IsArray(map[k]) THEN Array(map[k][2] \o map[k][2])
     ELSE IF IsObject(map[k]) THEN Object(Doubled(map[k][2]))
     ELSE map[k]]

\* C5: merging a document with itself under both flags succeeds and yields
\* the document with the arrays reached through objects doubled.
C5_SelfMerge ==
  (Returned /\ source = target /\ merge_nested /\ extend_array) =>
    /\ merged.ok
    /\ merged.map = Doubled(target)

\* C5 witness: the document holds a non-empty array inside a nested object,
\* and an array whose element is an object holding an array
C5_Witness ==
  /\ Returned /\ source = target /\ merge_nested /\ extend_array
  /\ \/ \E k \in DOMAIN target :
          /\ IsObject(target[k])
          /\ \E j \in DOMAIN target[k][2] :
               IsArray(target[k][2][j]) /\ target[k][2][j][2] # <<>>
          /\ \E j \in DOMAIN target[k][2] : IsScalar(target[k][2][j])
     \/ \E k \in DOMAIN target :
          /\ IsArray(target[k])
          /\ \E i \in DOMAIN target[k][2] : IsObject(target[k][2][i])

\* the object levels a merge visits: <<target, source, result>> at the top
\* and inside every key holding an object on both sides under merge_nested
RECURSIVE Levels(_, _, _, _)
Levels(t, s, r, mn) ==
  {<<t, s, r>>}
  \cup UNION {Levels(t[k][2], s[k][2], r[k][2], mn) :
                k \in {j \in Shared(t, s) \cap DOMAIN r :
                         mn /\ IsObject(t[j]) /\ IsObject(s[j]) /\ IsObject(r[j])}}

\* C10: at every object level a successful merge visits the result's keys
\* are the union of both sides' keys and the one-sided keys hold their
\* side's value; so merging into an empty map gives the source, and merging
\* an empty map gives the target.
C10_KeyUnionFrame ==
  Returned =>
    /\ merged.ok =>
         \A l \in Levels(target, source, merged.map, merge_nested) :
           /\ DOMAIN l[3] = (DOMAIN l[1]) \cup (DOMAIN l[2])
           /\ \A k \in (DOMAIN l[1]) \ (DOMAIN l[2]) : l[3][k] = l[1][k]
           /\ \A k \in (DOMAIN l[2]) \ (DOMAIN l[1]) : l[3][k] = l[2][k]
    /\ target = EmptyMap => merged = Ok(source)
    /\ source = EmptyMap => merged = Ok(target)

\* C10 witness: a nested level with a key only in the target and one only in
\* the source
C10_Witness ==
  /\ Returned /\ merged.ok
  /\ \E l \in Levels(target, source, merged.map, merge_nested) :
       /\ l[1] # target
       /\ (DOMAIN l[1]) \ (DOMAIN l[2]) # {}
       /\ (DOMAIN l[2]) \ (DOMAIN l[1]) # {}

(***************************************************************************)
(* Properties of parse_config_files (Spec).                                *)
(***************************************************************************)
Done == pc = "done"
Unsupported(file) == file.ext \notin {"toml", "json"}

\* the left fold of the first n paths: load, then merge into the fold of the
\* paths before, stopping at the first error
RECURSIVE FoldTo(_)
FoldTo(n) ==
  IF n = 0 THEN Ok(EmptyMap)
  ELSE LET acc == FoldTo(n - 1)
           doc == parse_config_file(paths[n], n)
       IN  IF ~acc.ok THEN acc
           ELSE IF ~doc.ok THEN doc
           ELSE merge_objects(acc.map, doc.map, merge_nested, extend_array)

\* the positions whose file loads to a document holding key k
Holding(k) ==
  {n \in DOMAIN paths : LET doc == parse_config_file(paths[n], n)
                        IN  doc.ok /\ k \in DOMAIN doc.map}

Max(S) == CHOOSE n \in S : \A m \in S : m <= n

\* C4: the accumulator is the left fold, from the empty object, of the
\* documents merged so far; a key holding a scalar in the accumulator takes
\* the value of the next document holding the key, whatever the flags and the
\* value; and in the returned document a key holding scalars in every
\* document holding it has the value of the last such document.
C4_FoldLastWins ==
  /\ pc \in {"loop", "merge"} => FoldTo(idx - 1) = Ok(target)
  /\ pc = "merge" => parse_config_file(paths[idx], idx) = Ok(config)
  /\ \A n \in DOMAIN paths :
       LET acc == FoldTo(n - 1)
           doc == parse_config_file(paths[n], n)
       IN  (acc.ok /\ doc.ok /\ n < idx) =>
             \A k \in Shared(acc.map, doc.map) :
               IsScalar(acc.map[k]) =>
                 /\ k \in DOMAIN FoldTo(n).map
                 /\ FoldTo(n).map[k] = doc.map[k]
  /\ (Done /\ result.ok) =>
       /\ result = FoldTo(Len(paths))
       /\ \A k \in TopKeys :
            (\A n \in Holding(k) : IsScalar(parse_config_file(paths[n], n).map[k])) =>
              /\ k \in DOMAIN result.map <=> Holding(k) # {}
              /\ Holding(k) # {} =>
                   result.map[k] = parse_config_file(paths[Max(Holding(k))], 0).map[k]

\* C4 witness: three documents holding three different scalars under one key
C4_Witness ==
  /\ Done /\ result.ok
  /\ Len(paths) = 3
  /\ Holding("a") = {1, 2, 3}
  /\ \A n \in 1..3 : IsScalar(paths[n].parsed[2]["a"])
  /\ Cardinality({paths[n].parsed[2]["a"] : n \in 1..3}) = 3

\* the n-th step of a call that has not failed: load and merge alternate,
\* path by path, and the decoding comes after the last merge
StepInOrder(n) ==
  IF n = 2 * Len(paths) + 1 THEN <<"decode", Len(paths) + 1>>
  ELSE IF n % 2 = 1 THEN <<"load", (n + 1) \div 2>>
  ELSE <<"merge", n \div 2>>

\* C6: the files are loaded and merged strictly in path order; the first
\* load or merge error in that order is the result of the call; nothing is
\* done after it (no later file is opened, nothing is decoded); and a
\* document is returned only when every path was loaded and merged.
C6_FailFast ==
  /\ \A n \in DOMAIN trace : trace[n] = StepInOrder(n)
  /\ Done =>
       /\ ~ENABLED Next
       /\ result.ok => Len(trace) = 2 * Len(paths) + 1
       /\ ~FoldTo(Len(paths)).ok =>
            /\ result = FoldTo(Len(paths))
            /\ trace[Len(trace)][1] \in {"load", "merge"}
            /\ trace[Len(trace)][2] = idx
            /\ \A n \in DOMAIN trace : trace[n][2] <= idx
            /\ \A m \in 1..(idx - 1) : FoldTo(m).ok

\* C6 witness: the merge of the second of three files fails
C6_Witness ==
  /\ Done /\ ~result.ok
  /\ Len(paths) = 3
  /\ trace[Len(trace)] = <<"merge", 2>>
  /\ paths[3].opens

\* C7 as stated: loading a path whose extension is neither toml nor json has
\* no other outcome than UnsupportedFileType
C7_Original ==
  (Done /\ trace[Len(trace)][1] = "load" /\ Unsupported(paths[idx])) =>
    result = Err(<<"UnsupportedFileType", idx>>)

\* C7 amended: loading a path whose extension is neither toml nor json never
\* succeeds: it fails with UnsupportedFileType when the file can be opened
\* and with FileOpen when it cannot; and a call whose list holds such a path
\* never returns a document.
C7_UnsupportedExtension ==
  /\ \A n \in DOMAIN paths :
       Unsupported(paths[n]) =>
         parse_config_file(paths[n], n) =
           Err(<<IF paths[n].opens THEN "UnsupportedFileType" ELSE "FileOpen", n>>)
  /\ Done =>
       /\ (trace[Len(trace)][1] = "load" /\ Unsupported(paths[idx])) =>
            result = Err(<<IF paths[idx].opens THEN "UnsupportedFileType"
                           ELSE "FileOpen", idx>>)
       /\ (\E n \in DOMAIN paths : Unsupported(paths[n])) => ~result.ok

\* C7 witness: after a file that loads and merges, a file without extension
\* is loaded
C7_Witness ==
  /\ Done
  /\ idx = 2
  /\ trace[Len(trace)] = <<"load", 2>>
  /\ paths[2].ext = NoExtension
  /\ paths[2].opens

(***************************************************************************)
(* Properties of parse_config_paths (SpecPaths).                           *)
(***************************************************************************)
Resolved == pc = "parse_config_files"

\* the paths of the regular files of a directory whose name some wildcard of
\* the filter matches
Passing(dir) ==
  {Append(dir.path, e[1]) :
     e \in {d \in dir.entries : IsFile(d) /\ Selected(d[1], Wildcards(match_wildcards))}}

\* a set of paths in ascending order
Ascending(S) ==
  CHOOSE l \in [1..Cardinality(S) -> S] :
    \A i, j \in DOMAIN l : i < j => PathLess(l[i], l[j])

\* what a location contributes to the path list
Contribution(l) == IF l.kind = "dir" THEN Ascending(Passing(l)) ELSE <<l.path>>

\* C8: a file location contributes itself, unfiltered; a directory its
\* regular files passing the filter in ascending order, whatever the order
\* read_dir yields them in; and the path list handed to parse_config_files
\* is the contributions concatenated in the order of the locations.
C8_PathOrder ==
  /\ pc \in {"resolve", "parse_config_files"} =>
       /\ Len(collected) = loc - 1
       /\ \A i \in DOMAIN collected : collected[i] = Contribution(locations[i])
  /\ Resolved =>
       /\ resolved.ok
       /\ resolved.paths = Flatten([i \in DOMAIN locations |-> Contribution(locations[i])])

\* C8 witness: a file location followed by a directory with two passing
\* files, the directory's paths sorting before the file's
C8_Witness ==
  /\ Resolved
  /\ Len(locations) = 2
  /\ locations[1].kind = "file"
  /\ Len(resolved.paths) = 3
  /\ PathLess(resolved.paths[2], resolved.paths[1])

DirsHolding(name) ==
  {i \in DOMAIN locations :
     /\ locations[i].kind = "dir"
     /\ <<name, "file">> \in locations[i].entries}

InList(i, name) ==
  \E n \in DOMAIN resolved.paths : resolved.paths[n] = Append(locations[i].path, name)

\* C9 as stated: under the filter ["prod"] a directory's dev.json is left
\* out and its prod-db.json is in the path list
C9_Original ==
  (Resolved /\ match_wildcards = Some(<<prod>>)) =>
    /\ \A i \in DirsHolding(dev_json) : ~InList(i, dev_json)
    /\ \A i \in DirsHolding(prod_db_json) : InList(i, prod_db_json)

\* C9 amended: a filter entry is a wildcard matched against the whole file
\* name.  Under ["prod"] a directory's dev.json and prod-db.json are both
\* left out and only a file named prod is listed; under ["prod*"] dev.json
\* is left out and prod-db.json is listed.  Files not matching any entry
\* never enter the path list.
C9_WildcardFilter ==
  Resolved =>
    /\ match_wildcards = Some(<<prod>>) =>
         /\ \A i \in DirsHolding(dev_json) : ~InList(i, dev_json)
         /\ \A i \in DirsHolding(prod_db_json) : ~InList(i, prod_db_json)
         /\ \A i \in DirsHolding(prod) : InList(i, prod)
    /\ match_wildcards = Some(<<prod_star>>) =>
         /\ \A i \in DirsHolding(dev_json) : ~InList(i, dev_json)
         /\ \A i \in DirsHolding(prod_db_json) : InList(i, prod_db_json)
    /\ \A i \in DOMAIN locations :
         locations[i].kind = "dir" =>
           \A e \in locations[i].entries :
             InList(i, e[1]) => Selected(e[1], Wildcards(match_wildcards))

\* C9 witness: a directory holding dev.json and prod-db.json is expanded
\* under the filter ["prod"]
C9_Witness ==
  /\ Resolved
  /\ match_wildcards = Some(<<prod>>)
  /\ DirsHolding(dev_json) \cap DirsHolding(prod_db_json) # {}

====
